---- MODULE Spec2Model ----
(***************************************************************************)
(* Model of server.js: five POST routes that run one ffmpeg transform,     *)
(* upload the result to the 'videos' bucket and delete the local files,    *)
(* plus the hourly retention cron job.                                     *)
(*                                                                         *)
(* One action is one turn of the Node event loop: a request handler, an    *)
(* ffmpeg event handler, or the continuation after an await.  The ffmpeg   *)
(* child process and the storage service run outside the event loop, so    *)
(* what they do (writing the output file, answering the upload) are steps  *)
(* of their own.                                                           *)
(***************************************************************************)
EXTENDS Integers, Sequences, FiniteSets, TLC

\* ---------------------------------------------------------------- bounds
MaxJobs == 2        \* requests that arrive during one run

Jobs == 1..MaxJobs

\* ------------------------------------------------------------- constants
Routes == {"trim", "crop", "add-voice", "add-caption", "merge"}

\* the multipart fields each route's multer middleware accepts
RouteFields(route) ==
    CASE route = "trim" -> {"video"}
      [] route = "crop" -> {"video"}
      [] route = "add-voice" -> {"video", "audio"}
      [] route = "add-caption" -> {"video", "subtitle"}
      [] route = "merge" -> {"videos"}

\* maxCount of a field: upload.single / maxCount: 1 / upload.array('videos', 2)
MaxCount(route) == IF route = "merge" THEN 2 ELSE 1

\* the prefix of the output file name
Prefix(route) ==
    CASE route = "trim" -> "trimmed"
      [] route = "crop" -> "cropped"
      [] route = "add-voice" -> "voiced"
      [] route = "add-caption" -> "captioned"
      [] route = "merge" -> "merged"

\* ----------------------------------------------------------------- paths
\* An absolute path is the sequence of its components; a file name is a
\* record [tag, n]: `${tag}_${n}.mp4` for outputs, a unique name for uploads.
NoPath == <<>>

\* `/tmp/${prefix}_${Date.now()}.mp4`
OutputPath(route, t) == <<"tmp", [tag |-> Prefix(route), n |-> t]>>

\* multer: dest '/tmp/', a fresh random file name for every stored file
MulterPath(j, field, i) == <<"tmp", [tag |-> field, n |-> 10 * j + i]>>

\* path.basename
Basename(p) == p[Len(p)]

\* path.resolve of an absolute, normalised path returns it
PathResolve(p) == p

\* -------------------------------------------------------------- requests
\* A request: its route, whether its body is multipart/form-data, and how
\* many files it carries in each field the route accepts.
Requests ==
    UNION { { rq \in [route : {r}, multipart : BOOLEAN,
                      count : [RouteFields(r) -> 0..(MaxCount(r) + 1)]] :
                /\ r # "merge" => \A f \in RouteFields(r) : rq.count[f] <= 1
                /\ ~rq.multipart => \A f \in RouteFields(r) : rq.count[f] = 0 } :
            r \in Routes }

\* the request has every file its route requires
HasRequiredFiles(rq) ==
    IF rq.route = "merge" THEN rq.count["videos"] = 2
    ELSE \A f \in RouteFields(rq.route) : rq.count[f] = 1

\* ---------------------------------------------------------------- multer
\* The upload middleware.  A body that is not multipart is passed through
\* untouched (req.file / req.files stay undefined).  More files in a field
\* than its maxCount is a MulterError: the files stored so far are removed
\* and the error goes to Express.  Otherwise every file is stored under
\* /tmp/ and req.file / req.files name the stored paths.  With
\* upload.fields, req.files has a key only for a field that carried a file:
\* an empty sequence here stands for the missing key.
Multer(j, rq) ==
    LET over == \E f \in RouteFields(rq.route) : rq.count[f] > MaxCount(rq.route)
    IN  [ error |-> rq.multipart /\ over,
          defined |-> rq.multipart /\ ~over,
          files |-> [f \in RouteFields(rq.route) |->
                       IF rq.multipart /\ ~over
                       THEN [i \in 1..rq.count[f] |-> MulterPath(j, f, i)]
                       ELSE <<>>] ]

\* the paths multer left on local storage
Stored(mu) == UNION { {mu.files[f][i] : i \in 1..Len(mu.files[f])} : f \in DOMAIN mu.files }

\* ------------------------------------------------------------- responses
Json(status, body) == [status |-> status, type |-> "json", body |-> body]

\* Express' default error handler: what a request gets when its middleware
\* or its handler throws
ExpressError == [status |-> 500, type |-> "html", body |-> [error |-> "Internal Server Error"]]

ValidationMsg(route) ==
    CASE route = "trim" -> "Video file required."
      [] route = "crop" -> "Video file required."
      [] route = "add-voice" -> "Video and Audio files required."
      [] route = "add-caption" -> "Video and .srt Subtitle files required."
      [] route = "merge" -> "Exactly 2 videos required."

TransformErrorMsg(route) ==
    IF route = "merge" THEN "Merge failed." ELSE "Video processing failed."

\* a slip: the upload failure reuses the route's processing-failure message
UploadErrorMsgSame(route) == TransformErrorMsg(route)

UploadErrorMsg(route) ==
    IF route = "merge" THEN "Cloud upload failed."
    ELSE "Processing succeeded, but cloud upload failed."

\* ------------------------------------------------------------ validation
\* The first statement of each route handler: "ok", "missing" (the 400
\* branch) or "throw" (reading a property of undefined req.files).
Validate(rq, mu) ==
    CASE rq.route \in {"trim", "crop"} ->
            IF Len(mu.files["video"]) = 0 THEN "missing" ELSE "ok"
      [] rq.route = "add-voice" ->
            IF ~mu.defined THEN "throw"
            ELSE IF Len(mu.files["video"]) = 0 \/ Len(mu.files["audio"]) = 0
                 THEN "missing" ELSE "ok"
      [] rq.route = "add-caption" ->
            IF ~mu.defined THEN "throw"
            ELSE IF Len(mu.files["video"]) = 0 \/ Len(mu.files["subtitle"]) = 0
                 THEN "missing" ELSE "ok"
      [] rq.route = "merge" ->
            IF ~mu.defined \/ Len(mu.files["videos"]) # 2 THEN "missing" ELSE "ok"

\* the inputFiles argument each route passes on
InputFiles(rq, mu) ==
    CASE rq.route \in {"trim", "crop"} -> <<mu.files["video"][1]>>
      [] rq.route = "add-voice" -> <<mu.files["video"][1], mu.files["audio"][1]>>
      [] rq.route = "add-caption" ->
            <<mu.files["video"][1], PathResolve(mu.files["subtitle"][1])>>
      [] rq.route = "merge" -> mu.files["videos"]

\* --------------------------------------------------------------- cleanup
\* cleanupFiles: files.forEach(file => { if (file && fs.existsSync(file))
\* fs.unlinkSync(file) }).  unlinkSync can throw (EPERM, EBUSY, ...): throws
\* says that the first unlinkSync of this run does.  A throw ends the loop,
\* leaving that file and the later ones in place.
\* a slip: no existsSync test, so unlinkSync of a missing path throws ENOENT
RECURSIVE CleanupFromUnchecked(_, _, _, _)
CleanupFromUnchecked(d, files, i, throws) ==
    IF i > Len(files) THEN [disk |-> d, threw |-> FALSE]
    ELSE IF files[i] \notin d \/ throws THEN [disk |-> d, threw |-> TRUE]
         ELSE CleanupFromUnchecked(d \ {files[i]}, files, i + 1, throws)

RECURSIVE CleanupFrom(_, _, _, _)
CleanupFrom(d, files, i, throws) ==
    IF i > Len(files) THEN [disk |-> d, threw |-> FALSE]
    ELSE IF files[i] # NoPath /\ files[i] \in d
         THEN IF throws THEN [disk |-> d, threw |-> TRUE]
              ELSE CleanupFrom(d \ {files[i]}, files, i + 1, throws)
         ELSE CleanupFrom(d, files, i + 1, throws)

CleanupFiles(d, files, throws) == CleanupFrom(d, files, 1, throws)

\* a slip: the output path is left out of the cleanup list
CleanupArgsInputsOnly(inputs, out) == inputs

\* the argument of both cleanupFiles calls: [...inputFiles, outputPath]
CleanupArgs(inputs, out) == inputs \o <<out>>

\* -------------------------------------------------------- object storage
\* An artifact of the 'videos' bucket: its name and its created_at.
\* upload(..., {upsert: true}) replaces an artifact of the same name; whether
\* the replaced artifact keeps its created_at is the storage service's
\* choice, so both are possible.
UpsertTimes(b, name, t) == {t} \cup {a.created_at : a \in {x \in b : x.name = name}}

Upsert(b, name, createdAt) ==
    {a \in b : a.name # name} \cup {[name |-> name, created_at |-> createdAt]}

\* getPublicUrl(fileName), as the handler sees it: data.publicUrl is a URL
\* or an empty locator, or data itself is null and reading data.publicUrl
\* throws.
UrlResults == {"url", "empty", "null"}

PublicUrl(name) == <<"public", "videos", name>>

EmptyUrl == <<>>

\* the body of res.json({ success: true, downloadUrl: publicUrl })
SuccessBody(name, got) ==
    [success |-> TRUE, downloadUrl |-> IF got = "url" THEN PublicUrl(name) ELSE EmptyUrl]

UploadFailure(route, details) ==
    Json(500, [error |-> UploadErrorMsg(route), details |-> details])

TransformFailure(route, details) ==
    Json(500, [error |-> TransformErrorMsg(route), details |-> details])

\* a slip: res.json is reached before the locator is read, so a throw on
\* data.publicUrl answers a second time from the catch block
EndResponsesBoth(route, name, got) ==
    IF got = "null"
    THEN <<Json(200, SuccessBody(name, got)), UploadFailure(route, "TypeError")>>
    ELSE <<Json(200, SuccessBody(name, got))>>

\* What the try/catch of the 'end' handler sends once the storage service has
\* accepted the upload: the success response, or the catch block's response
\* when uploadToSupabase throws on data.publicUrl.
EndResponses(route, name, got) ==
    IF got = "null" THEN <<UploadFailure(route, "TypeError")>>
    ELSE <<Json(200, SuccessBody(name, got))>>

\* ----------------------------------------------------------------- state
VARIABLES
    now,            \* Date.now(), in milliseconds since the server started
    crashed,        \* the Node process has exited
    disk,           \* the paths that exist on local storage
    bucket,         \* the artifacts of the 'videos' bucket
    pc,             \* per job: where its request is
    req,            \* per job: the request
    stored,         \* per job: the paths multer stored for it
    inputFiles,     \* per job: the inputFiles its handler passed on
    outputPath,     \* per job: its outputPath
    signal,         \* per job: the terminal signal of its ffmpeg command
    resp,           \* per job: the responses sent on its res, in order
    sentWith,       \* per job: its paths that existed when its response was sent
    cleanupCalls,   \* per job: the arguments of its cleanupFiles calls
    uploadCalls,    \* per job: the arguments of its uploadToSupabase calls
    saveCalls,      \* per job: how often its ffmpeg command was started
    sweep,          \* the cron job: where its current run is, and what it did
    probe           \* a helper applied on its own: its inputs and results

vars == <<now, crashed, disk, bucket, pc, req, stored, inputFiles, outputPath,
          signal, resp, sentWith, cleanupCalls, uploadCalls, saveCalls, sweep, probe>>

\* what no request handler touches
aux == <<sweep, probe>>

\* the cron job before its first run
NoSweep ==
    [pc |-> "idle", runs |-> 0, runNow |-> 0, oneDayAgo |-> 0, all |-> {}, listed |-> {},
     listOk |-> FALSE, toDelete |-> {}, listCalls |-> 0, removeCalls |-> 0,
     failed |-> FALSE, prevFailed |-> FALSE]

NoProbe == [kind |-> "none"]

NoRequest == [route |-> "none", multipart |-> FALSE, count |-> <<>>]

\* the request side of the state when no request has arrived
JobsInit ==
    /\ crashed = FALSE
    /\ pc = [j \in Jobs |-> "idle"]
    /\ req = [j \in Jobs |-> NoRequest]
    /\ stored = [j \in Jobs |-> {}]
    /\ inputFiles = [j \in Jobs |-> <<>>]
    /\ outputPath = [j \in Jobs |-> NoPath]
    /\ signal = [j \in Jobs |-> "none"]
    /\ resp = [j \in Jobs |-> <<>>]
    /\ sentWith = [j \in Jobs |-> {}]
    /\ cleanupCalls = [j \in Jobs |-> <<>>]
    /\ uploadCalls = [j \in Jobs |-> <<>>]
    /\ saveCalls = [j \in Jobs |-> 0]

\* every local path of job j: what multer stored, and its output
JobPaths(j) == stored[j] \cup (IF outputPath[j] = NoPath THEN {} ELSE {outputPath[j]})

Init ==
    /\ now = 0
    /\ disk = {}
    /\ bucket = {}
    /\ JobsInit
    /\ sweep = NoSweep
    /\ probe = NoProbe

\* --------------------------------------------------------------- actions
\* some handler has already named its output file after the current reading
\* of the clock
ClockRead == \E j \in Jobs : outputPath[j] # NoPath /\ Basename(outputPath[j]).n = now

\* A request arrives: multer stores its files, then the route handler runs
\* up to .save(outputPath) / .mergeToFile(outputPath), or rejects it.
\* Requests are numbered in the order they arrive.  Date.now() is read only
\* where a handler names its output file: it returns the millisecond of the
\* previous reading, or (elapsed) a later one; how much later makes no
\* difference to a file name, so the next millisecond stands for all.
Request(j, rq, elapsed) ==
    /\ ~crashed
    /\ pc[j] = "idle"
    /\ j > 1 => pc[j - 1] # "idle"
    /\ LET mu == Multer(j, rq)
           v == IF mu.error THEN "throw" ELSE Validate(rq, mu)
       IN  /\ elapsed => v = "ok" /\ ClockRead
           /\ now' = IF elapsed THEN now + 1 ELSE now
           /\ req' = [req EXCEPT ![j] = rq]
           /\ stored' = [stored EXCEPT ![j] = Stored(mu)]
           /\ disk' = disk \cup Stored(mu)
           /\ IF v = "ok"
              THEN /\ inputFiles' = [inputFiles EXCEPT ![j] = InputFiles(rq, mu)]
                   /\ outputPath' = [outputPath EXCEPT ![j] = OutputPath(rq.route, now')]
                   /\ saveCalls' = [saveCalls EXCEPT ![j] = @ + 1]
                   /\ pc' = [pc EXCEPT ![j] = "transforming"]
                   /\ UNCHANGED <<resp, sentWith>>
              ELSE /\ resp' = [resp EXCEPT ![j] = Append(@,
                                 IF v = "missing"
                                 THEN Json(400, [error |-> ValidationMsg(rq.route)])
                                 ELSE ExpressError)]
                   /\ sentWith' = [sentWith EXCEPT ![j] = Stored(mu)]
                   /\ pc' = [pc EXCEPT ![j] = "done"]
                   /\ UNCHANGED <<inputFiles, outputPath, saveCalls>>
    /\ UNCHANGED <<crashed, bucket, signal, cleanupCalls, uploadCalls>>
    /\ UNCHANGED aux

\* The ffmpeg process finishes its output file and exits successfully: the
\* 'end' event is now due.
TransformEnd(j) ==
    /\ ~crashed
    /\ pc[j] = "transforming"
    /\ disk' = disk \cup {outputPath[j]}
    /\ signal' = [signal EXCEPT ![j] = "end"]
    /\ pc' = [pc EXCEPT ![j] = "signalled"]
    /\ UNCHANGED <<now, crashed, bucket, req, stored, inputFiles, outputPath, resp,
                   sentWith, cleanupCalls, uploadCalls, saveCalls>>
    /\ UNCHANGED aux

\* The ffmpeg process fails, with or without a partial output file: the
\* 'error' event is now due.
TransformError(j, partial) ==
    /\ ~crashed
    /\ pc[j] = "transforming"
    /\ disk' = IF partial THEN disk \cup {outputPath[j]} ELSE disk
    /\ signal' = [signal EXCEPT ![j] = "error"]
    /\ pc' = [pc EXCEPT ![j] = "signalled"]
    /\ UNCHANGED <<now, crashed, bucket, req, stored, inputFiles, outputPath, resp,
                   sentWith, cleanupCalls, uploadCalls, saveCalls>>
    /\ UNCHANGED aux

\* try/catch, then finally, of the 'end' handler: the responses rs are sent,
\* then cleanupFiles runs.  A throw of cleanupFiles rejects the promise of
\* the async handler, which nothing handles: Node (15 and later) ends the
\* process on an unhandled rejection.
EndFinish(j, rs, throws) ==
    LET files == CleanupArgs(inputFiles[j], outputPath[j])
        c == CleanupFiles(disk, files, throws)
    IN  /\ resp' = [resp EXCEPT ![j] = @ \o rs]
        /\ sentWith' = [sentWith EXCEPT ![j] = JobPaths(j) \cap disk]
        /\ cleanupCalls' = [cleanupCalls EXCEPT ![j] = Append(@, files)]
        /\ disk' = c.disk
        /\ pc' = [pc EXCEPT ![j] = IF c.threw THEN "aborted" ELSE "done"]
        /\ crashed' = c.threw

\* The 'end' handler up to its await: uploadToSupabase reads the output
\* file and sends it off.  readFileSync throws when the file is gone, which
\* takes the handler through catch and finally at once.
OnEndBody(j, throws) ==
    /\ uploadCalls' = [uploadCalls EXCEPT ![j] = Append(@,
            [localFilePath |-> outputPath[j], fileName |-> Basename(outputPath[j])])]
    /\ IF outputPath[j] \in disk
       THEN /\ pc' = [pc EXCEPT ![j] = "uploading"]
            /\ UNCHANGED <<crashed, disk, resp, sentWith, cleanupCalls>>
       ELSE EndFinish(j, <<UploadFailure(req[j].route, "ENOENT")>>, throws)
    /\ UNCHANGED <<now, bucket, req, stored, inputFiles, outputPath, signal, saveCalls>>
    /\ UNCHANGED aux

\* a slip: the upload handler is attached to both terminal events
OnEndAnySignal(j, throws) ==
    /\ ~crashed
    /\ pc[j] = "signalled"
    /\ OnEndBody(j, throws)

OnEnd(j, throws) ==
    /\ ~crashed
    /\ pc[j] = "signalled"
    /\ signal[j] = "end"
    /\ OnEndBody(j, throws)

\* a slip: a rejected upload is tried again instead of going to catch
UploadFailRetries(j, throws) ==
    /\ ~crashed
    /\ pc[j] = "uploading"
    /\ uploadCalls' = [uploadCalls EXCEPT ![j] = Append(@, @[1])]
    /\ UNCHANGED <<now, crashed, disk, bucket, pc, req, stored, inputFiles, outputPath,
                   signal, resp, sentWith, cleanupCalls, saveCalls, aux>>

\* The storage service rejects the upload: `if (error) throw error`, then
\* catch and finally.
UploadFail(j, throws) ==
    /\ ~crashed
    /\ pc[j] = "uploading"
    /\ EndFinish(j, <<UploadFailure(req[j].route, "storage error")>>, throws)
    /\ UNCHANGED <<now, bucket, req, stored, inputFiles, outputPath, signal,
                   uploadCalls, saveCalls>>
    /\ UNCHANGED aux

\* The storage service stores the artifact; the handler resumes with
\* getPublicUrl, the response and finally.
UploadOk(j, got, throws) ==
    /\ ~crashed
    /\ pc[j] = "uploading"
    /\ LET name == uploadCalls[j][1].fileName
       IN  /\ \E createdAt \in UpsertTimes(bucket, name, now) :
                 bucket' = Upsert(bucket, name, createdAt)
           /\ EndFinish(j, EndResponses(req[j].route, name, got), throws)
    /\ UNCHANGED <<now, req, stored, inputFiles, outputPath, signal, uploadCalls,
                   saveCalls>>
    /\ UNCHANGED aux

\* The 'error' handler: cleanupFiles, then the response.  A throw of
\* cleanupFiles leaves the event handler as an uncaught exception, which
\* ends the process before any response is sent.
OnError(j, throws) ==
    /\ ~crashed
    /\ pc[j] = "signalled"
    /\ signal[j] = "error"
    /\ LET files == CleanupArgs(inputFiles[j], outputPath[j])
           c == CleanupFiles(disk, files, throws)
       IN  /\ cleanupCalls' = [cleanupCalls EXCEPT ![j] = Append(@, files)]
           /\ disk' = c.disk
           /\ IF c.threw
              THEN /\ crashed' = TRUE
                   /\ pc' = [pc EXCEPT ![j] = "aborted"]
                   /\ UNCHANGED <<resp, sentWith>>
              ELSE /\ crashed' = FALSE
                   /\ pc' = [pc EXCEPT ![j] = "done"]
                   /\ resp' = [resp EXCEPT ![j] = Append(@,
                                 TransformFailure(req[j].route, "ffmpeg error"))]
                   /\ sentWith' = [sentWith EXCEPT ![j] = JobPaths(j) \cap c.disk]
    /\ UNCHANGED <<now, bucket, req, stored, inputFiles, outputPath, signal,
                   uploadCalls, saveCalls>>
    /\ UNCHANGED aux

Next ==
    \/ \E j \in Jobs, rq \in Requests, elapsed \in BOOLEAN : Request(j, rq, elapsed)
    \/ \E j \in Jobs : TransformEnd(j)
    \/ \E j \in Jobs, partial \in BOOLEAN : TransformError(j, partial)
    \/ \E j \in Jobs, throws \in BOOLEAN : OnEnd(j, throws)
    \/ \E j \in Jobs, throws \in BOOLEAN : UploadFail(j, throws)
    \/ \E j \in Jobs, got \in UrlResults, throws \in BOOLEAN : UploadOk(j, got, throws)
    \/ \E j \in Jobs, throws \in BOOLEAN : OnError(j, throws)

Spec == Init /\ [][Next]_vars

\* ============================================================ the sweeper
\* cron.schedule('0 * * * *', ...): the callback runs at the start of every
\* hour.  Times are milliseconds, as Date.now() gives them.
HourMs == 60 * 60 * 1000

DayMs == 24 * 60 * 60 * 1000

\* runs of the callback that are followed
MaxRuns == 2

\* list() is called with no options; the client then asks the storage
\* service for the first 100 objects in ascending order of name.
ListLimit == 100

\* the order of the object names: by prefix, then by time stamp (time stamps
\* have the same number of digits)
TagRank(tag) ==
    CASE tag = "captioned" -> 1
      [] tag = "cropped" -> 2
      [] tag = "merged" -> 3
      [] tag = "trimmed" -> 4
      [] tag = "voiced" -> 5

NameLess(a, b) ==
    \/ TagRank(a.tag) < TagRank(b.tag)
    \/ a.tag = b.tag /\ a.n < b.n

\* data of supabase.storage.from('videos').list()
ListPage(b) ==
    {a \in b : Cardinality({x \in b : NameLess(x.name, a.name)}) < ListLimit}

\* files.filter(f => new Date(f.created_at) < oneDayAgo).map(f => f.name)
FilesToDelete(files, oneDayAgo) ==
    {f.name : f \in {x \in files : x.created_at < oneDayAgo}}

\* The callback starts: Date.now() at the start of the next hour, then the
\* list call is sent.  node-cron starts the callback on every tick; a run is
\* followed to its end before the next is started.
CronFire ==
    /\ ~crashed
    /\ sweep.pc = "idle"
    /\ sweep.runs < MaxRuns
    /\ now' = ((now \div HourMs) + 1) * HourMs
    /\ sweep' = [sweep EXCEPT !.pc = "listing", !.runs = @ + 1, !.runNow = now',
                              !.oneDayAgo = now' - DayMs, !.all = {}, !.listed = {},
                              !.listOk = FALSE, !.toDelete = {}, !.listCalls = 1,
                              !.removeCalls = 0, !.failed = FALSE,
                              !.prevFailed = sweep.failed]
    /\ UNCHANGED <<crashed, disk, bucket, pc, req, stored, inputFiles, outputPath,
                   signal, resp, sentWith, cleanupCalls, uploadCalls, saveCalls, probe>>

\* The list call answers.  A failure is the value { data: null, error }:
\* `if (!files) return`.  Otherwise the names are filtered and, if there is
\* one, the remove call is sent.
ListDone(ok) ==
    /\ ~crashed
    /\ sweep.pc = "listing"
    /\ IF ok
       THEN LET files == ListPage(bucket)
                filesToDelete == FilesToDelete(files, sweep.oneDayAgo)
            IN  sweep' = [sweep EXCEPT !.pc = IF filesToDelete = {} THEN "idle"
                                                ELSE "removing",
                                       !.all = bucket, !.listed = files,
                                       !.listOk = TRUE, !.toDelete = filesToDelete,
                                       !.removeCalls = IF filesToDelete = {} THEN 0
                                                       ELSE 1]
       ELSE sweep' = [sweep EXCEPT !.pc = "idle", !.failed = TRUE]
    /\ UNCHANGED <<now, crashed, disk, bucket, pc, req, stored, inputFiles,
                   outputPath, signal, resp, sentWith, cleanupCalls, uploadCalls,
                   saveCalls, probe>>

\* a slip: the remove call also empties the local scratch directory
RemoveDoneSweepsTmp(ok) ==
    /\ ~crashed
    /\ sweep.pc = "removing"
    /\ bucket' = IF ok THEN {a \in bucket : a.name \notin sweep.toDelete} ELSE bucket
    /\ disk' = {}
    /\ sweep' = [sweep EXCEPT !.pc = "idle", !.failed = ~ok]
    /\ UNCHANGED <<now, crashed, pc, req, stored, inputFiles, outputPath, signal,
                   resp, sentWith, cleanupCalls, uploadCalls, saveCalls, probe>>

\* The remove call answers; its result, an error included, is not looked at.
RemoveDone(ok) ==
    /\ ~crashed
    /\ sweep.pc = "removing"
    /\ bucket' = IF ok THEN {a \in bucket : a.name \notin sweep.toDelete} ELSE bucket
    /\ sweep' = [sweep EXCEPT !.pc = "idle", !.failed = ~ok]
    /\ UNCHANGED <<now, crashed, disk, pc, req, stored, inputFiles, outputPath,
                   signal, resp, sentWith, cleanupCalls, uploadCalls, saveCalls, probe>>

\* Artifacts of earlier jobs: a trim output uploaded at time t
OldArtifact(t) == [name |-> Basename(OutputPath("trim", t)), created_at |-> t]

\* three of them, which at the first run are older than a day by one
\* millisecond, a day old to the millisecond, and younger by one millisecond
Backlog == {OldArtifact(HourMs - 1), OldArtifact(HourMs), OldArtifact(HourMs + 1)}

\* a full page of caption outputs of the last seconds before the server
\* is followed
RecentPage ==
    {[name |-> Basename(OutputPath("add-caption", DayMs - k)), created_at |-> DayMs - k] :
        k \in 1..ListLimit}

\* The server has been up for a day; the bucket holds some of the backlog,
\* or all of it and the recent page.
SweepInit ==
    /\ now = DayMs
    /\ disk = {}
    /\ bucket \in (SUBSET Backlog) \cup {Backlog \cup RecentPage}
    /\ JobsInit
    /\ sweep = NoSweep
    /\ probe = NoProbe

\* the one request followed next to the sweeper
SweepJobs == {1}

SweepNext ==
    \/ CronFire
    \/ \E ok \in BOOLEAN : ListDone(ok)
    \/ \E ok \in BOOLEAN : RemoveDone(ok)
    \/ \E j \in SweepJobs, rq \in Requests, elapsed \in BOOLEAN : Request(j, rq, elapsed)
    \/ \E j \in SweepJobs : TransformEnd(j)
    \/ \E j \in SweepJobs, partial \in BOOLEAN : TransformError(j, partial)
    \/ \E j \in SweepJobs, throws \in BOOLEAN : OnEnd(j, throws)
    \/ \E j \in SweepJobs, throws \in BOOLEAN : UploadFail(j, throws)
    \/ \E j \in SweepJobs, got \in UrlResults, throws \in BOOLEAN : UploadOk(j, got, throws)
    \/ \E j \in SweepJobs, throws \in BOOLEAN : OnError(j, throws)

SweepSpec == SweepInit /\ [][SweepNext]_vars

\* ================================================= cleanupFiles by itself
\* longest list of paths handed to cleanupFiles
MaxLen == 2

\* calls of cleanupFiles with the same list
MaxCalls == 2

\* an uploaded file and an output file
ProbePaths == {MulterPath(1, "video", 1), OutputPath("trim", 0)}

\* lists of paths; NoPath stands for an empty or undefined entry
PathLists == UNION {[1..n -> ProbePaths \cup {NoPath}] : n \in 0..MaxLen}

CleanupInit ==
    /\ now = 0
    /\ disk \in SUBSET ProbePaths
    /\ bucket = {}
    /\ JobsInit
    /\ sweep = NoSweep
    /\ \E files \in PathLists :
           probe = [kind |-> "cleanup", files |-> files, calls |-> 0, first |-> disk,
                    before |-> disk, threw |-> FALSE]

\* cleanupFiles(files) is called; an exception ends the caller.
CleanupCall(throws) ==
    /\ probe.kind = "cleanup"
    /\ probe.calls < MaxCalls
    /\ ~probe.threw
    /\ LET c == CleanupFiles(disk, probe.files, throws)
       IN  /\ disk' = c.disk
           /\ probe' = [probe EXCEPT !.calls = @ + 1, !.before = disk,
                                     !.threw = c.threw]
    /\ UNCHANGED <<now, crashed, bucket, pc, req, stored, inputFiles, outputPath,
                   signal, resp, sentWith, cleanupCalls, uploadCalls, saveCalls, sweep>>

CleanupNext == \E throws \in BOOLEAN : CleanupCall(throws)

CleanupSpec == CleanupInit /\ [][CleanupNext]_vars

\* ==================================================== request parameters
\* JavaScript values of the parameters: a number (a default of the source)
\* or a string (a text field of the multipart body)
Num(n) == [t |-> "number", v |-> n]

Str(x) == [t |-> "string", v |-> x]

\* the text fields a route reads from req.body
ParamFields(route) ==
    CASE route = "trim" -> {"startTime", "duration"}
      [] route = "crop" -> {"w", "h", "x", "y"}

\* const { startTime = 0, duration = 5 } = req.body
TrimDefaults == [startTime |-> 0, duration |-> 5]

\* const { w = 1080, h = 1920, x = 0, y = 0 } = req.body
CropDefaults == [w |-> 1080, h |-> 1920, x |-> 0, y |-> 0]

ParamDefaults(route) == IF route = "trim" THEN TrimDefaults ELSE CropDefaults

\* texts a field can carry: empty, in range, out of range
FieldTexts == {"", "30", "-5"}

\* req.body after multer: the text fields that were sent, each a string
Bodies(route) ==
    UNION {[present -> FieldTexts] : present \in SUBSET ParamFields(route)}

\* a slip: `body.f || dflt`, which also replaces an empty string
DestructureOr(body, f, dflt) ==
    IF f \in DOMAIN body /\ body[f] # "" THEN Str(body[f]) ELSE Num(dflt)

\* `{ f = dflt } = body`: the default is taken when body.f is undefined
Destructure(body, f, dflt) ==
    IF f \in DOMAIN body THEN Str(body[f]) ELSE Num(dflt)

\* ${value} in a template literal
Template(value) == IF value.t = "number" THEN ToString(value.v) ELSE value.v

\* the parameters a route hands to the ffmpeg command:
\* setStartTime(startTime).setDuration(duration), or
\* videoFilters(`crop=${w}:${h}:${x}:${y}`) as the pieces of the filter text
EngineArgs(route, body) ==
    LET p == [f \in ParamFields(route) |-> Destructure(body, f, ParamDefaults(route)[f])]
    IN  IF route = "trim"
        THEN [params |-> p, setStartTime |-> p["startTime"], setDuration |-> p["duration"]]
        ELSE [params |-> p,
              videoFilters |-> <<"crop=", Template(p["w"]), ":", Template(p["h"]), ":",
                                 Template(p["x"]), ":", Template(p["y"])>>]

ParamInit ==
    /\ now = 0
    /\ disk = {}
    /\ bucket = {}
    /\ JobsInit
    /\ sweep = NoSweep
    /\ \E route \in {"trim", "crop"} :
           \E body \in Bodies(route) :
               probe = [kind |-> "params", route |-> route, body |-> body,
                        called |-> FALSE, args |-> <<>>]

\* the handler of /trim or /crop, after its file test, builds the command
ParamCall ==
    /\ probe.kind = "params"
    /\ ~probe.called
    /\ probe' = [probe EXCEPT !.called = TRUE,
                              !.args = EngineArgs(probe.route, probe.body)]
    /\ UNCHANGED <<now, crashed, disk, bucket, pc, req, stored, inputFiles, outputPath,
                   signal, resp, sentWith, cleanupCalls, uploadCalls, saveCalls, sweep>>

ParamNext == ParamCall

ParamSpec == ParamInit /\ [][ParamNext]_vars

\* ================================================================ claims
Responded(j) == resp[j] # <<>>

Validated(j) == outputPath[j] # NoPath

InFlight(j) == pc[j] \in {"transforming", "signalled", "uploading"}

Succeeded(j) == Responded(j) /\ resp[j][1].status = 200

\* the job's transform ended well and the job answered with a failure
UploadFailed(j) == signal[j] = "end" /\ Responded(j) /\ resp[j][1].status # 200

TransformFailed(j) == signal[j] = "error" /\ Responded(j)

\* C1: no request is ever answered twice, and a request whose handler has
\* run to its end (rejected, transform failed, upload failed, or success) has
\* been answered exactly once.
C1_OneResponse ==
    \A j \in Jobs :
        /\ Len(resp[j]) <= 1
        /\ pc[j] = "done" => Len(resp[j]) = 1

\* C1 witness: one job has ended with a success response and another with
\* an upload failure.
C1_Witness ==
    \E i, j \in Jobs :
        /\ pc[i] = "done" /\ Succeeded(i)
        /\ pc[j] = "done" /\ UploadFailed(j)

\* C2 (as claimed): whenever a validated job has been answered, none of its
\* paths existed on local storage at the moment the response was sent.
C2_CleanBeforeResponse ==
    \A j \in Jobs : (Validated(j) /\ Responded(j)) => sentWith[j] = {}

\* C3: a validated job calls cleanupFiles at most once, and once its handler
\* has finished it has called it exactly once, with every path multer stored
\* for it and its output path.
C3_CleanupOnce ==
    \A j \in Jobs :
        /\ Len(cleanupCalls[j]) <= 1
        /\ (Validated(j) /\ pc[j] \in {"done", "aborted"}) =>
              /\ Len(cleanupCalls[j]) = 1
              /\ {cleanupCalls[j][1][k] : k \in 1..Len(cleanupCalls[j][1])} = JobPaths(j)

\* C3 witness: a job whose transform failed and a job whose transform ended
\* have both finished, each with its one cleanup call.
C3_Witness ==
    \E i, j \in Jobs :
        /\ pc[i] = "done" /\ signal[i] = "error" /\ Len(cleanupCalls[i]) = 1
        /\ pc[j] = "done" /\ signal[j] = "end" /\ Len(cleanupCalls[j]) = 1

\* C4: a job that has called uploadToSupabase had its transform signal
\* 'end'; a job whose transform signalled 'error' or that was rejected has
\* never called it; and every artifact of the bucket carries the file name of
\* an upload made by a job whose transform signalled 'end'.
C4_UploadAfterEnd ==
    /\ \A j \in Jobs :
          /\ uploadCalls[j] # <<>> => signal[j] = "end"
          /\ (signal[j] = "error" \/ (pc[j] # "idle" /\ ~Validated(j))) =>
                /\ uploadCalls[j] = <<>>
                /\ pc[j] # "uploading"
    /\ \A a \in bucket :
          \E j \in Jobs : /\ signal[j] = "end"
                          /\ uploadCalls[j] # <<>>
                          /\ uploadCalls[j][1].fileName = a.name

\* C4 witness: one job has uploaded an artifact while another job's
\* transform failed and that job has answered.
C4_Witness ==
    \E i, j \in Jobs :
        /\ uploadCalls[i] # <<>> /\ bucket # {}
        /\ pc[j] = "done" /\ TransformFailed(j)

\* C5 (as claimed): once a job has answered with a transform or upload
\* failure, the bucket holds no artifact under the base name of its output
\* path.
C5_NoArtifactAfterFailure ==
    \A j \in Jobs :
        (pc[j] = "done" /\ (TransformFailed(j) \/ UploadFailed(j))) =>
            ~ \E a \in bucket : a.name = Basename(outputPath[j])

\* C6 (as claimed): two jobs in flight at the same time have distinct output
\* paths, hence distinct artifact names.
C6_DistinctOutputPaths ==
    \A i, j \in Jobs :
        (i # j /\ InFlight(i) /\ InFlight(j)) => outputPath[i] # outputPath[j]

\* C7 (as claimed): a request that lacks a required file is answered with
\* 400, and no output path is allocated, no transform started and no upload
\* started for it.
C7_MissingFiles400 ==
    \A j \in Jobs :
        (pc[j] # "idle" /\ ~HasRequiredFiles(req[j])) =>
            /\ Responded(j) /\ resp[j][1].status = 400
            /\ outputPath[j] = NoPath
            /\ saveCalls[j] = 0
            /\ uploadCalls[j] = <<>>

\* C8 (as claimed): after a request has been rejected with 400, none of the
\* files multer stored for it remains on local storage.
C8_RejectedLeavesNoFile ==
    \A j \in Jobs :
        (pc[j] = "done" /\ Responded(j) /\ resp[j][1].status = 400) =>
            stored[j] \cap disk = {}

\* C9: a job whose transform ended and that answered with a failure answered
\* with status 500 and an error message other than the one its route sends
\* when the transform fails.
C9_UploadFailureDistinct ==
    \A j \in Jobs :
        UploadFailed(j) =>
            /\ resp[j][1].status = 500
            /\ resp[j][1].body.error # TransformErrorMsg(req[j].route)

\* C9 witness: an upload failure has been answered on the merge route and on
\* a route that goes through processAndUpload.
C9_Witness ==
    \E i, j \in Jobs :
        /\ UploadFailed(i) /\ req[i].route = "merge"
        /\ UploadFailed(j) /\ req[j].route # "merge"

\* C10 (as claimed): a success response never carries an empty download URL.
C10_NoEmptyUrlOnSuccess ==
    \A j \in Jobs : Succeeded(j) => resp[j][1].body.downloadUrl # EmptyUrl

\* C11 (as claimed): no job's failure ends the process.
C11_ProcessSurvives == ~crashed

\* C12 (as claimed): every request is answered; so once the process has
\* exited, when no response can follow, every request that arrived has been
\* answered.
C12_AnsweredBeforeExit ==
    \A j \in Jobs : (crashed /\ pc[j] # "idle") => Responded(j)

\* C15 (as claimed): every success response is JSON with success: true and a
\* downloadUrl, and every other response is JSON with an error and a details
\* field.
C15_ResponseShape ==
    \A j \in Jobs :
        Responded(j) =>
            LET r == resp[j][1]
            IN  /\ r.type = "json"
                /\ IF r.status = 200
                   THEN /\ {"success", "downloadUrl"} \subseteq DOMAIN r.body
                        /\ r.body.success = TRUE
                   ELSE {"error", "details"} \subseteq DOMAIN r.body

\* C16 (as claimed): from the completion signal of a job's transform until
\* its 'end' handler reads the output file, the file exists.
C16_OutputExistsForUpload ==
    \A j \in Jobs :
        (pc[j] = "signalled" /\ signal[j] = "end") => outputPath[j] \in disk

\* C17: a job starts its transform at most once and calls uploadToSupabase
\* at most once, and a job that has answered with a failure has not started
\* either a second time.
C17_NoRetry ==
    \A j \in Jobs :
        /\ saveCalls[j] <= 1
        /\ Len(uploadCalls[j]) <= 1
        /\ TransformFailed(j) => saveCalls[j] = 1 /\ uploadCalls[j] = <<>>
        /\ UploadFailed(j) => saveCalls[j] = 1 /\ Len(uploadCalls[j]) = 1

\* C17 witness: one job has answered a transform failure and another an
\* upload failure.
C17_Witness ==
    \E i, j \in Jobs :
        /\ pc[i] = "done" /\ TransformFailed(i)
        /\ pc[j] = "done" /\ UploadFailed(j)

\* the artifacts whose age at time t is greater than 24 hours
Expired(files, t) == {a \in files : t - a.created_at > DayMs}

\* C13 (as claimed): in a run whose list call succeeded, the names for the
\* bulk delete are exactly the names of all artifacts in the bucket older
\* than 24 hours, and the delete call is issued exactly when there is one.
C13_DeleteSetExact ==
    (sweep.runs > 0 /\ sweep.listOk) =>
        /\ sweep.toDelete = {a.name : a \in Expired(sweep.all, sweep.runNow)}
        /\ sweep.removeCalls = 0 <=> sweep.toDelete = {}

\* C14 (as claimed): a run makes each call at most once, and when the run
\* after a failed run has completed without a failure, no artifact that was
\* older than 24 hours at that run is left in the bucket.
C14_FailureSwallowed ==
    /\ sweep.listCalls <= 1
    /\ sweep.removeCalls <= 1
    /\ (sweep.pc = "idle" /\ sweep.prevFailed /\ sweep.listOk /\ ~sweep.failed) =>
           Expired(bucket, sweep.runNow) = {}

\* C20: a step of the sweeper leaves the local files and every job's state
\* as they are, changes the bucket only by the answer to its remove call and
\* then only by taking artifacts away, and a run makes one list call and at
\* most one remove call.
C20_SweepFrame ==
    [][sweep' # sweep =>
          /\ UNCHANGED <<crashed, disk, pc, req, stored, inputFiles, outputPath,
                         signal, resp, sentWith, cleanupCalls, uploadCalls, saveCalls>>
          /\ bucket' # bucket => sweep.pc = "removing" /\ bucket' \subseteq bucket
          /\ sweep'.listCalls = 1
          /\ sweep'.removeCalls <= 1]_vars

\* C20 witness: a run has made its remove call while a job that began before
\* the run was in flight, and the job's input files are still there.
C20_Witness ==
    /\ sweep.pc = "idle" /\ sweep.removeCalls = 1 /\ ~sweep.failed
    /\ \E j \in Jobs :
           /\ InFlight(j)
           /\ Basename(outputPath[j]).n < sweep.runNow
           /\ stored[j] # {} /\ stored[j] \subseteq disk

\* the paths of a list, empty entries left out
Listed(files) == {files[i] : i \in DOMAIN files} \ {NoPath}

\* C18: a call of cleanupFiles whose listed paths are all missing or empty
\* changes nothing and does not raise, whether or not unlink would fail; a
\* call that returns has deleted every listed path and nothing else; and a
\* further call with the same list changes nothing and does not raise.
C18_CleanupIdempotent ==
    (probe.kind = "cleanup" /\ probe.calls >= 1) =>
        /\ Listed(probe.files) \cap probe.before = {} =>
               ~probe.threw /\ disk = probe.before
        /\ ~probe.threw => disk = probe.before \ Listed(probe.files)
        /\ probe.calls >= 2 => ~probe.threw /\ disk = probe.before

\* C18 witness: cleanupFiles has been called twice with a list that has an
\* existing path and a missing or empty one.
C18_Witness ==
    /\ probe.kind = "cleanup" /\ probe.calls = 2
    /\ \E i, k \in DOMAIN probe.files :
           /\ probe.files[i] \in probe.first
           /\ probe.files[k] \notin probe.first

\* the defaults as the specification lists them, as numbers and as they
\* read in a filter text
ListedDefaults ==
    [trim |-> [startTime |-> <<0, "0">>, duration |-> <<5, "5">>],
     crop |-> [w |-> <<1080, "1080">>, h |-> <<1920, "1920">>,
               x |-> <<0, "0">>, y |-> <<0, "0">>]]

\* the text a parameter contributes to the crop filter
FilterText(route, body, f) ==
    IF f \in DOMAIN body THEN body[f] ELSE ListedDefaults[route][f][2]

\* C19: each Trim and Crop parameter handed to the engine is the numeric
\* default when its field is absent from the body and otherwise the text of
\* the field as sent, the empty text and out-of-range texts included.
C19_DefaultsOnlyWhenAbsent ==
    (probe.kind = "params" /\ probe.called) =>
        LET route == probe.route
            body == probe.body
            args == probe.args
        IN  /\ \A f \in ParamFields(route) :
                   args.params[f] = IF f \in DOMAIN body
                                    THEN [t |-> "string", v |-> body[f]]
                                    ELSE [t |-> "number", v |-> ListedDefaults[route][f][1]]
            /\ route = "trim" =>
                   /\ args.setStartTime = args.params["startTime"]
                   /\ args.setDuration = args.params["duration"]
            /\ route = "crop" =>
                   args.videoFilters =
                       <<"crop=", FilterText(route, body, "w"), ":",
                         FilterText(route, body, "h"), ":", FilterText(route, body, "x"),
                         ":", FilterText(route, body, "y")>>

\* C19 witness: a Trim command was built from a body with an empty startTime
\* and no duration.
C19_Witness ==
    /\ probe.kind = "params" /\ probe.called /\ probe.route = "trim"
    /\ DOMAIN probe.body = {"startTime"} /\ probe.body["startTime"] = ""

====
